---- MODULE Spec2Model ----
(***************************************************************************)
(* A model of voronoi_diagram.py: the module-level state (points, colors,  *)
(* index_grid, color_grid, the artist lists and the axes), the operation   *)
(* generate_voronoi with every random choice left open, the callbacks that *)
(* are connected to the widgets, and the retry loop of                     *)
(* generate_unique_color step by step.                                     *)
(*                                                                         *)
(* Python lists and NumPy arrays are functions on 0..n-1, so that site ids *)
(* and colour-pool indices are the ones of the source.  The two lists of   *)
(* artists, which the source only appends to and iterates, are sequences.  *)
(*                                                                         *)
(* Coordinates are exact rationals: a coordinate v of the working area is  *)
(* the integer v * Scale.  A colour is the triple of its 8-bit channels;   *)
(* a candidate drawn by np.random.rand(3) is a triple of hundredths.       *)
(***************************************************************************)
EXTENDS Integers, Sequences, FiniteSets, TLC

VARIABLES
    points,            \* global points: site id -> <<x, y>>
    colors,            \* global colors: site id -> colour of color_pool
    index_grid,        \* global index_grid[i][j]
    color_grid,        \* global color_grid[i][j]
    point_plots,       \* the list point_plots (artist ids)
    boundary_lines,    \* the list boundary_lines (artist ids)
    ax_lines,          \* the Line2D artists on ax: artist id -> attributes
    voronoi_plot,      \* ax.voronoi_plot: << >> before the first imshow; its data is color_grid
    check_points,      \* check_points.get_status()[0]
    check_boundaries,  \* check_boundaries.get_status()[0]
    color_pool,        \* color_pool of the last call of generate_voronoi
    num_colors,        \* num_colors of the last call after line 87
    pool_index,        \* history: the index i of lines 99-105 each entry of colors was taken at
    call_args,         \* history: <<num_points, num_colors>> the last call was given
    calls,             \* history: number of calls of generate_voronoi so far
    error,             \* the exception the last call ended with, or "none"
    uc_pc,             \* pool loop of lines 90-92 step by step: "idle", "loop", "done"
    uc_target,         \* num_colors of that loop
    uc_pool,           \* color_pool of that loop
    uc_attempt,        \* iterations of the for loop of line 51 made in the current call
    uc_origin          \* history: per pool entry "fixed", "fallback", or <<the candidate it was formatted from>>

vars == <<points, colors, index_grid, color_grid, point_plots, boundary_lines,
          ax_lines, voronoi_plot, check_points, check_boundaries, color_pool,
          num_colors, pool_index, call_args, calls, error,
          uc_pc, uc_target, uc_pool, uc_attempt, uc_origin>>

gui_vars == <<points, colors, index_grid, color_grid, point_plots, boundary_lines,
              ax_lines, voronoi_plot, check_points, check_boundaries, color_pool,
              num_colors, pool_index, call_args, calls, error>>

uc_vars == <<uc_pc, uc_target, uc_pool, uc_attempt, uc_origin>>

----------------------------------------------------------------------------
(* Bounds of the model *)

\* upper end of the Num Points slider (100 in the source) in Spec and SpecAny
MaxPoints == 2
\* upper end of the Num Colors slider (20 in the source) in Spec and SpecAny
MaxColors == 2
\* calls of generate_voronoi in one behaviour
MaxCalls == 4
\* upper ends of num_points and num_colors in SpecCall
CallMaxPoints == 3
CallMaxColors == 3
\* upper ends of num_points and num_colors in SpecWide and of num_colors in SpecColor
WideMaxPoints == 4
WideMaxColors == 4
\* grid_size of line 118 (300 in the source)
grid_size == 3

(* Program constants *)
MinPoints == 2
MinColors == 2
PointsValInit == 20
ColorsValInit == 2
\* the side of the working area, lines 83, 119, 120, 152, 153
Area == 10
\* threshold of line 48, in hundredths
threshold == 10
max_attempts == 100

----------------------------------------------------------------------------
(* Helpers *)

Min(a, b) == IF a < b THEN a ELSE b

Max(a, b) == IF a > b THEN a ELSE b

Range(f) == {f[x] : x \in DOMAIN f}

\* len() of a list held as a function on 0..n-1
Len0(f) == Cardinality(DOMAIN f)

\* None, and the empty list
None == << >>

\* the function f with every value computed once (TLC keeps [x \in S |-> e]
\* as an expression and computes e again at each application)
Table(f) == f @@ << >>

----------------------------------------------------------------------------
(* Colours *)

Black == <<0, 0, 0>>
White == <<255, 255, 255>>
Gray == <<128, 128, 128>>

\* the values np.random.rand(3) is let to return, in hundredths: one that is
\* too close to black, one just outside the threshold of black, a saturated
\* red, and one too close to white
Candidates == {<<0, 0, 0>>, <<10, 1, 0>>, <<99, 0, 0>>, <<99, 99, 99>>}

\* '#{:02x}{:02x}{:02x}'.format(int(rgb[0] * 255), ...): each channel truncated
hex_color(rgb) == [k \in 1..3 |-> (rgb[k] * 255) \div 100]

Sq(a) == a * a

\* dist < threshold of lines 59-61, for a candidate (hundredths) and an
\* existing pool colour (mcolors.to_rgb divides each channel by 255):
\* sqrt(sum (c/100 - h/255)^2) < threshold/100, cleared of denominators
too_close_to(rgb, existing) ==
    Sq(255 * rgb[1] - 100 * existing[1]) + Sq(255 * rgb[2] - 100 * existing[2])
      + Sq(255 * rgb[3] - 100 * existing[3]) < Sq(255 * threshold)

\* the inner loop of lines 57-63
too_close(rgb, existing_colors) ==
    \E i \in DOMAIN existing_colors : too_close_to(rgb, existing_colors[i])

\* the values generate_unique_color(existing_colors) can return: the hex form
\* of a candidate that is not too close, or, when max_attempts candidates in a
\* row were too close, the gray of line 67
generate_unique_color(existing_colors) ==
    {hex_color(c) : c \in {d \in Candidates : ~too_close(d, existing_colors)}}
      \cup (IF \E d \in Candidates : too_close(d, existing_colors) THEN {Gray} ELSE {})

Append0(list, v) ==
    [i \in 0..Len0(list) |-> IF i < Len0(list) THEN list[i] ELSE v]

\* the pools lines 90-92 can leave in color_pool after `extra` more appends
RECURSIVE ExtendPools(_, _)
ExtendPools(pools, extra) ==
    IF extra <= 0 THEN pools
    ELSE ExtendPools(UNION {{Append0(p, c) : c \in generate_unique_color(p)} : p \in pools},
                     extra - 1)

ColorPoolsOf(k) == ExtendPools({[i \in 0..1 |-> IF i = 0 THEN Black ELSE White]}, k - 2)

ColorPools == [k \in 0..Max(MaxColors, Max(CallMaxColors, WideMaxColors)) |-> ColorPoolsOf(k)]

\* color_pool[:num_colors]
Slice(list, k) == [i \in 0..(Min(k, Len0(list)) - 1) |-> list[i]]

\* {color: i for i, color in enumerate(color_pool[:num_colors])}: a later
\* entry of the same colour replaces the earlier one
color_to_index_of(pool, k) ==
    [c \in Range(Slice(pool, k)) |->
        CHOOSE i \in DOMAIN Slice(pool, k) :
            /\ pool[i] = c
            /\ \A j \in DOMAIN Slice(pool, k) : pool[j] = c => j <= i]

----------------------------------------------------------------------------
(* Colour distribution, lines 94-106 *)

\* random.sample(range(k), r): r distinct indices, in any order
SamplesOf(k, r) ==
    {s \in [0..(r - 1) -> 0..(k - 1)] : \A a, b \in 0..(r - 1) : a # b => s[a] # s[b]}

\* the orders random.shuffle can leave a list of n entries in
PermsOf(n) ==
    {p \in [0..(n - 1) -> 0..(n - 1)] : \A a, b \in 0..(n - 1) : a # b => p[a] # p[b]}

Perms == [n \in 0..Max(MaxPoints, Max(CallMaxPoints, WideMaxPoints)) |-> PermsOf(n)]

\* the pool index of each entry of colors before the shuffle: every index
\* colors_per_point times (lines 99-100), then the sampled ones (102-105)
assigned_indices(n, k, extra_colors) ==
    LET colors_per_point == n \div k
    IN  [p \in 0..(n - 1) |->
            IF p < k * colors_per_point THEN p \div colors_per_point
            ELSE extra_colors[p - k * colors_per_point]]

shuffle(list, perm) == [s \in DOMAIN list |-> list[perm[s]]]

----------------------------------------------------------------------------
(* Grid classification, lines 117-131 *)

\* coordinates are multiples of 1/Scale
Scale == grid_size * (grid_size - 1)

\* the positions np.random.rand(n, 2) * 10 is let to put a site at
\* (2.5, 2.5) and (7.5, 5); two sites at one position are let to happen
SitePositions ==
    {<<(Area * Scale) \div 4, (Area * Scale) \div 4>>,
     <<(3 * Area * Scale) \div 4, (Area * Scale) \div 2>>}

\* np.linspace(0, 10, grid_size)[j]
linspace(j) == (Area * Scale * j) \div (grid_size - 1)

\* np.vstack([X.ravel(), Y.ravel()]).T for X, Y = np.meshgrid(x, y):
\* row k is (x[k % grid_size], y[k // grid_size])
grid_points ==
    [k \in 0..(grid_size * grid_size - 1) |->
        <<linspace(k % grid_size), linspace(k \div grid_size)>>]

\* np.sum((points - grid_point) ** 2, axis=1)
distances(pts, grid_point) ==
    [s \in DOMAIN pts |-> Sq(pts[s][1] - grid_point[1]) + Sq(pts[s][2] - grid_point[2])]

\* the last index of a least entry
argmin_last(d) ==
    CHOOSE s \in DOMAIN d :
        /\ \A t \in DOMAIN d : d[s] <= d[t]
        /\ \A t \in DOMAIN d : d[t] = d[s] => s >= t

\* np.argmin: the first index of a least entry
argmin(d) ==
    CHOOSE s \in DOMAIN d :
        /\ \A t \in DOMAIN d : d[s] <= d[t]
        /\ \A t \in DOMAIN d : d[t] = d[s] => s <= t

\* closest_point_idx of each row of grid_points
closest(pts) == [k \in DOMAIN grid_points |-> argmin(distances(pts, grid_points[k]))]

\* the array a with a[i // grid_size, i % grid_size] = flat[i] for every i
\* the flat index i with (i // grid_size, i % grid_size) = (row, col)
flat_index ==
    Table([row \in 0..(grid_size - 1) |-> [col \in 0..(grid_size - 1) |->
        CHOOSE i \in 0..(grid_size * grid_size - 1) :
            i \div grid_size = row /\ i % grid_size = col]])

unravel(flat) ==
    [row \in 0..(grid_size - 1) |-> [col \in 0..(grid_size - 1) |->
        flat[flat_index[row][col]]]]

\* every array of at least one site a call can draw
SiteArrays ==
    UNION {[0..(n - 1) -> SitePositions] : n \in 1..Max(MaxPoints, Max(CallMaxPoints, WideMaxPoints))}

\* the loop of lines 127-131 reads points only: its result per array of sites
Closest == Table([pts \in SiteArrays |-> closest(pts)])

\* index_grid per array of sites
IndexGrid == Table([pts \in SiteArrays |-> unravel(Closest[pts])])

classify_index(pts) == IndexGrid[pts]

classify_color(pts, cols, color_to_index) ==
    LET closest_point_idx == Closest[pts]
    IN  unravel([k \in DOMAIN grid_points |-> color_to_index[cols[closest_point_idx[k]]]])

----------------------------------------------------------------------------
(* Boundaries, lines 151-169 *)

\* dx = dy = 10 / (grid_size - 1), the spacing of np.linspace
sample_spaced_coord(j) == (Area * Scale * j) \div (grid_size - 1)

\* j * dx and i * dy with dx = dy = 10 / grid_size
boundary_coord(j) == (Area * Scale * j) \div grid_size

\* the loop body without its second test
horizontal_segments_only(grid, i, j) ==
    IF grid[i][j] # grid[i][j + 1]
      THEN <<[xdata |-> <<(Area * Scale * j) \div grid_size, (Area * Scale * (j + 1)) \div grid_size>>,
              ydata |-> <<(Area * Scale * i) \div grid_size, (Area * Scale * i) \div grid_size>>]>>
      ELSE << >>

\* the loop body with its two tests in the other order
vertical_segments_first(grid, i, j) ==
    (IF grid[i][j] # grid[i + 1][j]
       THEN <<[xdata |-> <<(Area * Scale * j) \div grid_size, (Area * Scale * j) \div grid_size>>,
               ydata |-> <<(Area * Scale * i) \div grid_size, (Area * Scale * (i + 1)) \div grid_size>>]>>
       ELSE << >>)
    \o
    (IF grid[i][j] # grid[i][j + 1]
       THEN <<[xdata |-> <<(Area * Scale * j) \div grid_size, (Area * Scale * (j + 1)) \div grid_size>>,
               ydata |-> <<(Area * Scale * i) \div grid_size, (Area * Scale * i) \div grid_size>>]>>
       ELSE << >>)

\* the segments the loop body of lines 156-169 plots for cell (i, j)
cell_segments(grid, i, j) ==
    (IF grid[i][j] # grid[i][j + 1]
       THEN <<[xdata |-> <<boundary_coord(j), boundary_coord(j + 1)>>,
               ydata |-> <<boundary_coord(i), boundary_coord(i)>>]>>
       ELSE << >>)
    \o
    (IF grid[i][j] # grid[i + 1][j]
       THEN <<[xdata |-> <<boundary_coord(j), boundary_coord(j)>>,
               ydata |-> <<boundary_coord(i), boundary_coord(i + 1)>>]>>
       ELSE << >>)

\* the loops of lines 154-155 from cell number c on, row by row
RECURSIVE scan_from(_, _)
scan_from(grid, c) ==
    IF c >= (grid_size - 1) * (grid_size - 1) THEN << >>
    ELSE cell_segments(grid, c \div (grid_size - 1), c % (grid_size - 1))
           \o scan_from(grid, c + 1)

boundary_segments(grid) == scan_from(grid, 0)

\* the segments per array of sites
Segments == Table([pts \in SiteArrays |-> boundary_segments(classify_index(pts))])

----------------------------------------------------------------------------
(* Artists *)

PointId(call, i) == <<call, "point", i>>

LineId(call, m) == <<call, "line", m>>

\* ax when only the artists of point_plots are removed
removed_points_only(lines, plots, boundaries) ==
    [a \in DOMAIN lines \ Range(plots) |-> lines[a]]

\* ax after plot.remove() for every artist of both lists, lines 74-79
removed(lines, plots, boundaries) ==
    [a \in DOMAIN lines \ (Range(plots) \cup Range(boundaries)) |-> lines[a]]

\* ax after the ax.plot calls of lines 146-149 and 160-169
plotted(lines, call, pts, cols, segs, show_points, show_boundaries) ==
    [a \in DOMAIN lines \cup {PointId(call, i) : i \in DOMAIN pts}
                        \cup {LineId(call, m) : m \in DOMAIN segs} |->
        IF a \in DOMAIN lines THEN lines[a]
        ELSE IF a[2] = "point"
          THEN [xdata |-> <<pts[a[3]][1]>>, ydata |-> <<pts[a[3]][2]>>,
                color |-> cols[a[3]], visible |-> show_points]
          ELSE [xdata |-> segs[a[3]].xdata, ydata |-> segs[a[3]].ydata,
                color |-> Gray, visible |-> show_boundaries]]

----------------------------------------------------------------------------
(* The state after lines 28-32 and 174-214 *)

Init ==
    /\ points = None
    /\ colors = None
    /\ index_grid = None
    /\ color_grid = None
    /\ point_plots = << >>
    /\ boundary_lines = << >>
    /\ ax_lines = << >>
    /\ voronoi_plot = << >>
    /\ check_points = TRUE
    /\ check_boundaries = FALSE
    /\ color_pool = << >>
    /\ num_colors = 0
    /\ pool_index = << >>
    /\ call_args = <<0, 0>>
    /\ calls = 0
    /\ error = "none"
    /\ uc_pc = "idle"
    /\ uc_target = 0
    /\ uc_pool = << >>
    /\ uc_attempt = 0
    /\ uc_origin = << >>

----------------------------------------------------------------------------
(* generate_voronoi, lines 70-171 *)

\* num_colors taken as given
uncapped_colors(num_points_arg, num_colors_arg) == num_colors_arg

\* num_colors = min(int(num_colors), num_points), line 87
capped_colors(num_points_arg, num_colors_arg) == Min(num_colors_arg, num_points_arg)

\* the call runs to line 171
completes(n, k, pts, pool, extra_colors, perm) ==
    LET idx == Table(shuffle(assigned_indices(n, k, extra_colors), perm))
        cols == Table([s \in DOMAIN idx |-> pool[idx[s]]])
        color_to_index == Table(color_to_index_of(pool, k))
        igrid == classify_index(pts)
        cgrid == classify_color(pts, cols, color_to_index)
        segs == Segments[pts]
    IN  /\ points' = pts
        /\ color_pool' = pool
        /\ num_colors' = k
        /\ pool_index' = idx
        /\ colors' = cols
        /\ index_grid' = igrid
        /\ color_grid' = cgrid
        /\ voronoi_plot' = <<[cmap |-> Slice(pool, k), vmin |-> 0, vmax |-> k - 1]>>
        /\ point_plots' = [i \in 1..n |-> PointId(calls + 1, i - 1)]
        /\ boundary_lines' = [m \in 1..Len(segs) |-> LineId(calls + 1, m)]
        /\ ax_lines' = plotted(removed(ax_lines, point_plots, boundary_lines),
                               calls + 1, pts, cols, segs, check_points, check_boundaries)
        /\ error' = "none"

\* num_points // num_colors of line 95 raises ZeroDivisionError: the lists
\* are cleared and points is replaced, the rest is as it was
divides_by_zero(pts, pool) ==
    /\ points' = pts
    /\ color_pool' = pool
    /\ num_colors' = 0
    /\ point_plots' = << >>
    /\ boundary_lines' = << >>
    /\ ax_lines' = removed(ax_lines, point_plots, boundary_lines)
    /\ error' = "ZeroDivisionError"
    /\ UNCHANGED <<colors, index_grid, color_grid, voronoi_plot, pool_index>>

generate_voronoi(num_points_arg, num_colors_arg) ==
    /\ calls < MaxCalls
    /\ calls' = calls + 1
    /\ call_args' = <<num_points_arg, num_colors_arg>>
    /\ UNCHANGED <<check_points, check_boundaries>>
    /\ UNCHANGED uc_vars
    /\ LET n == num_points_arg
           k == capped_colors(num_points_arg, num_colors_arg)
       IN  \E pts \in [0..(n - 1) -> SitePositions] :
           \E pool \in ColorPools[k] :
               IF k = 0
               THEN divides_by_zero(pts, pool)
               ELSE \E extra_colors \in SamplesOf(k, n % k) :
                    \E perm \in Perms[n] :
                        completes(n, k, pts, pool, extra_colors, perm)

----------------------------------------------------------------------------
(* The program: the call of line 217 and the widget callbacks *)

\* line 217, with the sliders at their initial values
InitialGeneration ==
    /\ calls = 0
    /\ generate_voronoi(Min(PointsValInit, MaxPoints), Min(ColorsValInit, MaxColors))

\* regenerate, lines 244-245, with the sliders anywhere in their ranges
regenerate ==
    /\ calls > 0
    /\ \E num_points_val \in MinPoints..MaxPoints :
       \E num_colors_val \in MinColors..MaxColors :
           generate_voronoi(num_points_val, num_colors_val)

set_visible(lines, ids, status) ==
    [a \in DOMAIN lines |->
        IF a \in ids THEN [lines[a] EXCEPT !.visible = status] ELSE lines[a]]

\* a click on Show Points: the status flips, then toggle_points, lines 230-233
toggle_points ==
    /\ calls > 0
    /\ check_points' = ~check_points
    /\ ax_lines' = set_visible(ax_lines, Range(point_plots), check_points')
    /\ UNCHANGED <<points, colors, index_grid, color_grid, point_plots, boundary_lines,
                   voronoi_plot, check_boundaries, color_pool, num_colors, pool_index,
                   call_args, calls, error>>
    /\ UNCHANGED uc_vars

\* a click on Show Boundaries: the status flips, then toggle_boundaries, lines 237-240
toggle_boundaries ==
    /\ calls > 0
    /\ check_boundaries' = ~check_boundaries
    /\ ax_lines' = set_visible(ax_lines, Range(boundary_lines), check_boundaries')
    /\ UNCHANGED <<points, colors, index_grid, color_grid, point_plots, boundary_lines,
                   voronoi_plot, check_points, color_pool, num_colors, pool_index,
                   call_args, calls, error>>
    /\ UNCHANGED uc_vars

Next ==
    \/ InitialGeneration
    \/ regenerate
    \/ toggle_points
    \/ toggle_boundaries

Spec == Init /\ [][Next]_vars

----------------------------------------------------------------------------
(* One call of generate_voronoi with any valid arguments *)

FirstCall ==
    /\ calls = 0
    /\ \E num_points_val \in MinPoints..CallMaxPoints :
       \E num_colors_val \in MinColors..CallMaxColors :
           generate_voronoi(num_points_val, num_colors_val)

SpecCall == Init /\ [][FirstCall]_vars

\* the same with more points and colours
FirstWideCall ==
    /\ calls = 0
    /\ \E num_points_val \in MinPoints..WideMaxPoints :
       \E num_colors_val \in MinColors..WideMaxColors :
           generate_voronoi(num_points_val, num_colors_val)

SpecWide == Init /\ [][FirstWideCall]_vars

----------------------------------------------------------------------------
(* Calls of generate_voronoi with arguments the sliders cannot produce *)

AnyCall ==
    /\ calls > 0
    /\ \E num_points_val \in 0..MaxPoints :
       \E num_colors_val \in 0..MaxColors :
           generate_voronoi(num_points_val, num_colors_val)

NextAny ==
    \/ InitialGeneration
    \/ AnyCall

SpecAny == Init /\ [][NextAny]_vars

----------------------------------------------------------------------------
(* The loop of lines 90-92 with generate_unique_color step by step *)

\* line 90, and the loop of line 91 entered with num_colors = k
pool_start(k) ==
    /\ uc_pc \in {"idle", "done"}
    /\ uc_target' = k
    /\ uc_pool' = [i \in 0..1 |-> IF i = 0 THEN Black ELSE White]
    /\ uc_origin' = [i \in 0..1 |-> <<"fixed">>]
    /\ uc_attempt' = 0
    /\ uc_pc' = IF k > 2 THEN "loop" ELSE "done"
    /\ UNCHANGED gui_vars

\* color_pool.append(c) of line 92; the loop of line 91 ends after num_colors - 2 appends
pool_append(c, origin) ==
    /\ uc_pool' = Append0(uc_pool, c)
    /\ uc_origin' = Append0(uc_origin, origin)
    /\ uc_attempt' = 0
    /\ uc_pc' = IF Len0(uc_pool) + 1 >= uc_target THEN "done" ELSE "loop"

\* one iteration of the loop of line 51 with np.random.rand(3) = rgb: the
\* candidate is returned (line 65), or it is too close and the loop goes on,
\* or it was the last of max_attempts and line 67 returns the gray
draw(rgb) ==
    /\ uc_pc = "loop"
    /\ uc_attempt < max_attempts
    /\ IF ~too_close(rgb, uc_pool)
         THEN pool_append(hex_color(rgb), <<"drawn", rgb>>)
         ELSE IF uc_attempt + 1 = max_attempts
           THEN pool_append(Gray, <<"fallback">>)
           ELSE /\ uc_attempt' = uc_attempt + 1
                /\ UNCHANGED <<uc_pc, uc_pool, uc_origin>>
    /\ UNCHANGED uc_target
    /\ UNCHANGED gui_vars

NextColor ==
    \/ \E k \in MinColors..WideMaxColors : pool_start(k)
    \/ \E rgb \in Candidates : draw(rgb)

SpecColor == Init /\ [][NextColor]_vars

\* the pools the loop ends with are the ones generate_voronoi is let to build
LoopPoolsAreColorPools ==
    uc_pc = "done" => uc_pool \in ColorPools[uc_target]

----------------------------------------------------------------------------
(* Properties of one call: the colour pool and the colour assignment *)

\* a call of generate_voronoi has run to its end
Completed == calls > 0 /\ error = "none"

\* the pool index the program holds for site s: color_to_index[colors[s]]
site_color_index(s) == color_to_index_of(color_pool, num_colors)[colors[s]]

\* the number of sites pool index i is assigned to
sites_of_index(i) == Cardinality({s \in DOMAIN colors : site_color_index(s) = i})

\* C1: after a call with N points and K = min(num_colors, N) colours the
\* assignment has N entries, every pool index in [0, K) is assigned to
\* N div K or N div K + 1 sites, and exactly N mod K indices are assigned to
\* N div K + 1 sites, whatever the random choices were.
C1_EvenDistribution ==
    Completed =>
        LET N == call_args[1]
            K == Min(call_args[2], N)
        IN  /\ Len0(colors) = N
            /\ \A i \in 0..(K - 1) : sites_of_index(i) \in {N \div K, N \div K + 1}
            /\ Cardinality({i \in 0..(K - 1) : sites_of_index(i) = N \div K + 1}) = N % K

\* C2: the effective colour count is K = min(num_colors, N), at most N, and
\* the colour pool has exactly K entries, the first black, the second white.
C2_PoolShape ==
    Completed =>
        /\ num_colors = Min(call_args[2], call_args[1])
        /\ num_colors <= call_args[1]
        /\ Len0(color_pool) = num_colors
        /\ color_pool[0] = Black
        /\ color_pool[1] = White

\* a call given more colours than points has built its pool
C2_Witness ==
    /\ Completed
    /\ call_args = <<2, 3>>
    /\ num_colors = 2
    /\ Len0(color_pool) = 2

\* C3: every cell of color_grid holds the pool index that lines 98-105
\* assigned to the site index_grid names for the cell, and that index is in
\* [0, K), fallback grays included.
C3_ColorGridIsAssignedIndex ==
    Completed =>
        \A i, j \in 0..(grid_size - 1) :
            /\ color_grid[i][j] = pool_index[index_grid[i][j]]
            /\ color_grid[i][j] \in 0..(num_colors - 1)

----------------------------------------------------------------------------
(* Properties of one call: the grid *)

\* the squared distance of site s to the sample point of row i, column j,
\* which is (10 j / (grid_size - 1), 10 i / (grid_size - 1))
sample_distance(s, i, j) ==
    Sq(points[s][1] * (grid_size - 1) - Area * Scale * j)
      + Sq(points[s][2] * (grid_size - 1) - Area * Scale * i)

\* C4: index_grid[i][j] is a site at the least squared distance from the
\* sample point (x_j, y_i), and of the sites at that distance the one with
\* the lowest id.
C4_NearestLowestId ==
    Completed =>
        \A i, j \in 0..(grid_size - 1) :
            LET s == index_grid[i][j]
            IN  /\ s \in DOMAIN points
                /\ \A t \in DOMAIN points :
                       /\ sample_distance(s, i, j) <= sample_distance(t, i, j)
                       /\ sample_distance(t, i, j) = sample_distance(s, i, j) => s <= t

\* three sites, the first two at one position and the third elsewhere: both
\* kinds of cell occur, one decided by distance and one by the tie
C4_Witness ==
    /\ Completed
    /\ Len0(points) = 3
    /\ points[0] = points[1]
    /\ points[2] # points[0]
    /\ \E i, j \in 0..(grid_size - 1) : index_grid[i][j] = 0
    /\ \E i, j \in 0..(grid_size - 1) : index_grid[i][j] = 2

----------------------------------------------------------------------------
(* Properties of one call: the boundary segments *)

\* the attributes of the m-th artist of boundary_lines
line(m) == ax_lines[boundary_lines[m]]

\* the artist is the segment lines 158-160 plot for the pair (i, j), (i, j + 1)
is_horizontal_at(a, i, j) ==
    /\ a.xdata = <<(Area * Scale * j) \div grid_size, (Area * Scale * (j + 1)) \div grid_size>>
    /\ a.ydata = <<(Area * Scale * i) \div grid_size, (Area * Scale * i) \div grid_size>>

\* the artist is the segment lines 165-167 plot for the pair (i, j), (i + 1, j)
is_vertical_at(a, i, j) ==
    /\ a.xdata = <<(Area * Scale * j) \div grid_size, (Area * Scale * j) \div grid_size>>
    /\ a.ydata = <<(Area * Scale * i) \div grid_size, (Area * Scale * (i + 1)) \div grid_size>>

has_horizontal(i, j) == \E m \in DOMAIN boundary_lines : is_horizontal_at(line(m), i, j)

has_vertical(i, j) == \E m \in DOMAIN boundary_lines : is_vertical_at(line(m), i, j)

\* C6 as claimed: every horizontally or vertically adjacent pair of cells of
\* the whole grid whose index_grid values differ has a segment in boundary_lines.
C6_EveryAdjacency ==
    Completed =>
        /\ \A i \in 0..(grid_size - 1) : \A j \in 0..(grid_size - 2) :
               index_grid[i][j] # index_grid[i][j + 1] => has_horizontal(i, j)
        /\ \A i \in 0..(grid_size - 2) : \A j \in 0..(grid_size - 1) :
               index_grid[i][j] # index_grid[i + 1][j] => has_vertical(i, j)

\* C6 as amended: every such pair whose first cell (i, j) has both i and j in
\* 0..grid_size-2 has a segment in boundary_lines.
C6_EveryScannedAdjacency ==
    Completed =>
        \A i, j \in 0..(grid_size - 2) :
            /\ index_grid[i][j] # index_grid[i][j + 1] => has_horizontal(i, j)
            /\ index_grid[i][j] # index_grid[i + 1][j] => has_vertical(i, j)

\* a call whose grid has a horizontal and a vertical change among the scanned pairs
C6_Witness ==
    /\ Completed
    /\ \E i, j \in 0..(grid_size - 2) :
           index_grid[i][j] # index_grid[i][j + 1] /\ has_horizontal(i, j)
    /\ \E i, j \in 0..(grid_size - 2) :
           index_grid[i][j] # index_grid[i + 1][j] /\ has_vertical(i, j)

\* scan positions: 2 * (cell number) for the horizontal pair of a cell, one
\* more for its vertical pair, cells numbered row by row

\* the scan positions a plotted segment can stand for
positions_of(a) ==
    {2 * (ij[1] * (grid_size - 1) + ij[2]) :
        ij \in {p \in (0..(grid_size - 2)) \X (0..(grid_size - 2)) :
                  /\ is_horizontal_at(a, p[1], p[2])
                  /\ index_grid[p[1]][p[2]] # index_grid[p[1]][p[2] + 1]}}
    \cup
    {2 * (ij[1] * (grid_size - 1) + ij[2]) + 1 :
        ij \in {p \in (0..(grid_size - 2)) \X (0..(grid_size - 2)) :
                  /\ is_vertical_at(a, p[1], p[2])
                  /\ index_grid[p[1]][p[2]] # index_grid[p[1] + 1][p[2]]}}

scanned_cells == (0..(grid_size - 2)) \X (0..(grid_size - 2))

\* the pairs the scan visits whose index_grid values differ, as scan positions
differing_positions ==
    {2 * (p[1] * (grid_size - 1) + p[2]) :
        p \in {q \in scanned_cells : index_grid[q[1]][q[2]] # index_grid[q[1]][q[2] + 1]}}
    \cup
    {2 * (p[1] * (grid_size - 1) + p[2]) + 1 :
        p \in {q \in scanned_cells : index_grid[q[1]][q[2]] # index_grid[q[1] + 1][q[2]]}}

\* C7: every segment of boundary_lines belongs to one visited pair whose
\* index_grid values differ, the segments stand in scan order (row by row,
\* the horizontal pair of a cell before its vertical pair), no pair has two
\* segments, and there are as many segments as differing visited pairs.
C7_ScanOrder ==
    Completed =>
        /\ \A m \in DOMAIN boundary_lines : Cardinality(positions_of(line(m))) = 1
        /\ \A m, n \in DOMAIN boundary_lines :
               m < n => \A a \in positions_of(line(m)) : \A b \in positions_of(line(n)) : a < b
        /\ Len(boundary_lines) = Cardinality(differing_positions)

\* a call that plotted both segments of one cell, and left a visited pair without one
C7_Witness ==
    /\ Completed
    /\ \E p \in scanned_cells :
           /\ has_horizontal(p[1], p[2])
           /\ has_vertical(p[1], p[2])
    /\ \E p \in scanned_cells :
           /\ index_grid[p[1]][p[2]] = index_grid[p[1]][p[2] + 1]
           /\ ~has_horizontal(p[1], p[2])

\* the sample point of cell (i, j), as the classifier holds it
sample(i, j) == grid_points[flat_index[i][j]]

\* C9 as claimed: the segment of a visited pair starts at the sample point of
\* the pair's first cell (i, j): j * dx = x_j and i * dy = y_i.
C9_SameSpacing ==
    Completed =>
        \A m \in DOMAIN boundary_lines : \A p \in scanned_cells :
            (is_horizontal_at(line(m), p[1], p[2]) \/ is_vertical_at(line(m), p[1], p[2]))
              => /\ line(m).xdata[1] = sample(p[1], p[2])[1]
                 /\ line(m).ydata[1] = sample(p[1], p[2])[2]

\* C9 as amended: the segment of a visited pair starts at (j * dx, i * dy)
\* with dx = dy = 10 / grid_size, which is the sample point (x_j, y_i) scaled
\* by (grid_size - 1) / grid_size; the samples run from 0 to the full width
\* in grid_size - 1 equal steps.
C9_ScaledSpacing ==
    Completed =>
      /\ sample(0, 0) = <<0, 0>>
      /\ sample(grid_size - 1, grid_size - 1) = <<Area * Scale, Area * Scale>>
      /\ \A j \in 0..(grid_size - 2) :
             (sample(0, j + 1)[1] - sample(0, j)[1]) * (grid_size - 1) = Area * Scale
      /\ \A m \in DOMAIN boundary_lines :
            \E p \in scanned_cells :
                /\ is_horizontal_at(line(m), p[1], p[2]) \/ is_vertical_at(line(m), p[1], p[2])
                /\ line(m).xdata[1] * grid_size = sample(p[1], p[2])[1] * (grid_size - 1)
                /\ line(m).ydata[1] * grid_size = sample(p[1], p[2])[2] * (grid_size - 1)
                /\ line(m).xdata[2] * grid_size \in
                       {sample(p[1], p[2])[1] * (grid_size - 1),
                        sample(p[1], p[2] + 1)[1] * (grid_size - 1)}
                /\ line(m).ydata[2] * grid_size \in
                       {sample(p[1], p[2])[2] * (grid_size - 1),
                        sample(p[1] + 1, p[2])[2] * (grid_size - 1)}

\* a call that plotted a segment of a cell that is not in row 0 and one of a
\* cell that is not in column 0
C9_Witness ==
    /\ Completed
    /\ \E m \in DOMAIN boundary_lines : line(m).xdata[1] > 0
    /\ \E m \in DOMAIN boundary_lines : line(m).ydata[1] > 0

----------------------------------------------------------------------------
(* Properties of the program over its calls *)

\* C8: after any calls, only the data of the last one is held: point_plots
\* has as many artists as the last call had points, the artists of both lists
\* and all artists on the axes were created by the last call, the segments of
\* boundary_lines are the changes of the current index_grid, and points,
\* colors, index_grid and color_grid are those of the last call.
C8_OnlyLastCycle ==
    Completed =>
        /\ Len(point_plots) = call_args[1]
        /\ Len0(points) = call_args[1]
        /\ Len0(colors) = call_args[1]
        /\ \A m \in DOMAIN point_plots :
               /\ point_plots[m][1] = calls
               /\ point_plots[m] \in DOMAIN ax_lines
               /\ ax_lines[point_plots[m]].xdata = <<points[m - 1][1]>>
               /\ ax_lines[point_plots[m]].ydata = <<points[m - 1][2]>>
               /\ ax_lines[point_plots[m]].color = colors[m - 1]
        /\ \A m \in DOMAIN boundary_lines :
               /\ boundary_lines[m][1] = calls
               /\ boundary_lines[m] \in DOMAIN ax_lines
               /\ positions_of(line(m)) # {}
        /\ Len(boundary_lines) = Cardinality(differing_positions)
        /\ DOMAIN ax_lines = Range(point_plots) \cup Range(boundary_lines)
        /\ \A i, j \in 0..(grid_size - 1) :
               /\ \A t \in DOMAIN points :
                      sample_distance(index_grid[i][j], i, j) <= sample_distance(t, i, j)
               /\ color_pool[color_grid[i][j]] = colors[index_grid[i][j]]

\* a second call has replaced the artists of the first one: it plotted its
\* points and boundary segments, and the segments are shown
C8_Witness ==
    /\ Completed
    /\ calls = 2
    /\ call_args[1] = MinPoints
    /\ Len(point_plots) = MinPoints
    /\ Len(boundary_lines) > 0
    /\ check_boundaries

valid_args(args) ==
    /\ args[1] \in MinPoints..MaxPoints
    /\ Min(args[2], args[1]) \in MinColors..MaxColors

\* C5: a call with num_points outside its range, or with min(num_colors,
\* num_points) outside the range of num_colors, ends in an
\* InvalidParameterError and leaves points, colors, index_grid, color_grid,
\* point_plots and boundary_lines as they were.
C5_InvalidCallRejected ==
    [][(calls' = calls + 1 /\ ~valid_args(call_args'))
         => /\ error' = "InvalidParameterError"
            /\ UNCHANGED <<points, colors, index_grid, color_grid, point_plots, boundary_lines>>]_vars

----------------------------------------------------------------------------
(* Properties of generate_unique_color *)

\* the distance of two pool colours, each channel divided by 255, is below the threshold
pool_colors_too_close(c1, c2) ==
    10000 * (Sq(c1[1] - c2[1]) + Sq(c1[2] - c2[2]) + Sq(c1[3] - c2[3])) < Sq(255 * threshold)

\* no call of generate_unique_color draws more than max_attempts candidates,
\* and the gray is appended only by a call that drew max_attempts of them
BoundedDraws ==
    /\ uc_attempt < max_attempts
    /\ uc_pc \in {"idle", "loop", "done"}
    /\ uc_pc = "done" => Len0(uc_pool) = uc_target
    /\ uc_pc = "loop" => Len0(uc_pool) < uc_target

\* every entry that came from a candidate is the hex form of a candidate that
\* was at least the threshold away from every entry before it
DrawnFromDistinctCandidate ==
    \A i \in DOMAIN uc_pool :
        uc_origin[i][1] = "drawn" =>
            /\ uc_pool[i] = hex_color(uc_origin[i][2])
            /\ \A j \in 0..(i - 1) : ~too_close_to(uc_origin[i][2], uc_pool[j])

\* C10: a call of generate_unique_color draws at most max_attempts
\* candidates and returns the first that is not below the threshold from any
\* pool colour, or the gray after max_attempts failures, so the pool is built
\* for every K, and every entry at 2..K-1 that is not the fallback is at least
\* the threshold away from all entries before it.
C10_UniqueColors ==
    /\ BoundedDraws
    /\ DrawnFromDistinctCandidate
    /\ \A i \in DOMAIN uc_pool :
           (i >= 2 /\ uc_origin[i] # <<"fallback">>) =>
               \A j \in 0..(i - 1) : ~pool_colors_too_close(uc_pool[i], uc_pool[j])

====
